---- MODULE Spec2Model ----
(***************************************************************************)
(* LeverageMonitor (monitoring/leverage-monitor.ts) with the parts of      *)
(* YeiFinanceClient and SeiClient it calls, and the leverage calculator    *)
(* YeiFinance.calculateLeverageParams.                                     *)
(*                                                                         *)
(* Amounts are whole SEI, prices are hundredths of a dollar.  A quotient   *)
(* the code computes in floating point (healthFactor, ltv, liquidation     *)
(* price) is kept as the exact fraction [n, d] and compared by cross       *)
(* multiplication; d = 0 is the code's Infinity (n > 0) or NaN (n = 0),    *)
(* for which the comparisons below give JavaScript's answers.  Where two   *)
(* such quotients are equal as fractions, the rounding of the code's        *)
(* doubles decides the comparison, and it is computed in IEEE-754          *)
(* arithmetic (section Doubles).  YeiFinance.calculateLeverageParams is    *)
(* computed in that arithmetic throughout, for collateral in tenths of a   *)
(* SEI.                                                                    *)
(*                                                                         *)
(* An async method is a coroutine: it runs without interruption up to its  *)
(* next await, and one action is the code between two awaits.              *)
(***************************************************************************)
EXTENDS Integers, Sequences, FiniteSets

VARIABLES
  isMonitoring,   \* LeverageMonitor.isMonitoring
  timers,         \* number of setInterval timers registered and not cleared
  cycles,         \* performHealthCheck calls suspended on an await
  emergencies,    \* triggerEmergencyProcedures calls suspended on an await
  snapshots,      \* LeverageMonitor.snapshots
  alerts,         \* LeverageMonitor.alerts
  repays,         \* emergencyRepay transactions submitted by the monitor
  now,            \* the clock read by new Date()
  started,        \* history: number of performHealthCheck calls begun
  allSnapshots,   \* history: every snapshot ever pushed, in order
  allAlerts,      \* history: every alert ever pushed, in order
  triggered,      \* history: number of triggerEmergencyProcedures calls begun
  event           \* history: the call or continuation that ran last

vars == <<isMonitoring, timers, cycles, emergencies, snapshots, alerts,
          repays, now, started, allSnapshots, allAlerts, triggered, event>>

----------------------------------------------------------------------------
(* Bounds of the model. *)

MaxCycles == 2

MaxHistCycles == 130

FreeCycles == 3

MaxHealth == 250

(* Constants of the program. *)

SnapshotCapacity == 100

AlertCapacity == 50

MockPrice == 45

(* Replies of the lending pool, the oracle and the bank module. *)
Positions ==
  { [collateral |-> 100, debt |-> 80],     \* healthFactor 1.0, ltv 0.8
    [collateral |-> 150, debt |-> 100],    \* healthFactor 1.2, ltv 0.667
    [collateral |-> 200, debt |-> 100] }   \* healthFactor 1.6, ltv 0.5

Prices == {50}

\* with a price 10% above 0.50
WidePrices == {50, 55}

\* every kind of position the lending pool can report
WidePositions ==
  { [collateral |-> 0,   debt |-> 0],      \* healthFactor NaN, ltv NaN
    [collateral |-> 0,   debt |-> 80],     \* healthFactor 0, ltv Infinity
    [collateral |-> 10,  debt |-> 80],     \* healthFactor 0.1, ltv 8
    [collateral |-> 100, debt |-> 150],    \* healthFactor 0.533, ltv 1.5
    [collateral |-> 150, debt |-> 100],    \* healthFactor 1.2, ltv 0.667
    [collateral |-> 150, debt |-> 80],     \* healthFactor 1.5, ltv 0.533
    [collateral |-> 200, debt |-> 100] }   \* healthFactor 1.6, ltv 0.5

\* positions with healthFactor h/100, and the position of runMockMonitoring
\* (collateral 174.2968, debt 98.1291) in units of 0.0001 SEI
HealthPositions ==
  {[collateral |-> h, debt |-> 80] : h \in 0..MaxHealth}
    \cup {[collateral |-> 1742968, debt |-> 981291]}

\* with a position whose healthFactor is 1.1 as a fraction
MonitorPositions == HealthPositions \cup {[collateral |-> 187, debt |-> 136]}

Balances == {20, 21}

----------------------------------------------------------------------------
(* Fractions. *)

Frac(n, d) == [n |-> n, d |-> d]

\* r < a/b and r > a/b, for r.d >= 0, r.n >= 0, b > 0
FracLess(r, a, b) == r.n * b < a * r.d

FracGreater(r, a, b) == r.n * b > a * r.d

----------------------------------------------------------------------------
(* Doubles: IEEE-754 arithmetic on finite values >= 0, as JavaScript's      *)
(* numbers do it.  A whole number of any size is the sequence of its        *)
(* digits in base 2^15, lowest first, and <<>> is 0.                        *)

Base == 2^15

\* x, then y: operands are computed before the operation that uses them
Then(x, y) == IF x = x THEN y ELSE y

\* 2^k for k < 15, and the number of bits of a digit
Pow2(k) ==
  <<1, 2, 4, 8, 16, 32, 64, 128, 256, 512, 1024, 2048, 4096, 8192, 16384>>[k + 1]

BitLen(n) == Cardinality({k \in 0..14 : Pow2(k) <= n})

\* without leading zero digits
BigNorm(a) ==
  LET used == {i \in DOMAIN a : a[i] # 0}
  IN  IF used = {} THEN <<>>
      ELSE SubSeq(a, 1, CHOOSE i \in used : \A j \in used : j <= i)

BigOfInt(n) == BigNorm(<<n % Base, (n \div Base) % Base, n \div (Base * Base)>>)

BigDigit(a, i) == IF i <= Len(a) THEN a[i] ELSE 0

BigLonger(a, b) == IF Len(a) > Len(b) THEN Len(a) ELSE Len(b)

\* 1, 0, -1 for a >, =, < b: by the highest digit in which they differ
BigCmp(a, b) ==
  LET differ == {i \in 1..BigLonger(a, b) : BigDigit(a, i) # BigDigit(b, i)}
  IN  IF differ = {} THEN 0
      ELSE LET i == CHOOSE k \in differ : \A j \in differ : j <= k
           IN  IF BigDigit(a, i) > BigDigit(b, i) THEN 1 ELSE 0 - 1

\* a + b: digit i takes a carry when a lower digit overflows and every digit
\* between passes the carry on
BigCarry(a, b, i) ==
  \E j \in 1..(i - 1) :
    /\ BigDigit(a, j) + BigDigit(b, j) >= Base
    /\ \A k \in (j + 1)..(i - 1) : BigDigit(a, k) + BigDigit(b, k) = Base - 1

\* a - b for a >= b: digit i lends when a lower digit of a is the smaller and
\* every digit between is equal
BigBorrow(a, b, i) ==
  \E j \in 1..(i - 1) :
    /\ BigDigit(a, j) < BigDigit(b, j)
    /\ \A k \in (j + 1)..(i - 1) : BigDigit(a, k) = BigDigit(b, k)

\* a \div 2
BigHalf(a) ==
  BigNorm([i \in DOMAIN a |->
             a[i] \div 2 + (BigDigit(a, i + 1) % 2) * (Base \div 2)])

BigBitLen(a) == IF a = <<>> THEN 0 ELSE 15 * (Len(a) - 1) + BitLen(a[Len(a)])

BigOdd(a) == a # <<>> /\ a[1] % 2 = 1

\* a \div 2^k
BigShr(a, k) ==
  LET b == IF k \div 15 >= Len(a) THEN <<>> ELSE SubSeq(a, k \div 15 + 1, Len(a))
  IN  BigNorm([i \in DOMAIN b |->
                 b[i] \div Pow2(k % 15)
                   + (BigDigit(b, i + 1) % Pow2(k % 15)) * (Base \div Pow2(k % 15))])

\* the integer of a whole number below 2^31
BigToInt(a) == BigDigit(a, 1) + BigDigit(a, 2) * Base + BigDigit(a, 3) * Base * Base

\* The operations on whole numbers and on doubles are the arms of one
\* operator, Arith(op, x) for the operation op on the operands x; each has
\* its name below.
RECURSIVE Arith(_, _)

BigAdd(a, b) == Arith("BigAdd", <<a, b>>)

BigSub(a, b) == Arith("BigSub", <<a, b>>)

BigMulDigit(a, k) == Arith("BigMulDigit", <<a, k>>)

BigMulFrom(a, b, i) == Arith("BigMulFrom", <<a, b, i>>)

BigMul(a, b) == Arith("BigMul", <<a, b>>)

BigShl(a, k) == Arith("BigShl", <<a, k>>)

BigDivDigit(r, b) == Arith("BigDivDigit", <<r, b>>)

BigDivModFrom(a, b, i, q, r) == Arith("BigDivModFrom", <<a, b, i, q, r>>)

BigDivMod(a, b) == Arith("BigDivMod", <<a, b>>)

DblRound(num, den, scale) == Arith("DblRound", <<num, den, scale>>)

DblShifted(num, den, scale, e) == Arith("DblShifted", <<num, den, scale, e>>)

DblQuotient(qr, d1, scale, e) == Arith("DblQuotient", <<qr, d1, scale, e>>)

DblNearest(q, r, d, e) == Arith("DblNearest", <<q, r, d, e>>)

DblOf(n, d) == Arith("DblOf", <<n, d>>)

DblAligned(x, y) == Arith("DblAligned", <<x, y>>)

DblMul(x, y) == Arith("DblMul", <<x, y>>)

DblDiv(x, y) == Arith("DblDiv", <<x, y>>)

DblSub(x, y) == Arith("DblSub", <<x, y>>)

DblCmp(x, y) == Arith("DblCmp", <<x, y>>)

healthFactorDouble(collateral, debt) ==
  Arith("healthFactorDouble", <<collateral, debt>>)

HealthFactorAgainst(collateral, debt, a, b) ==
  Arith("HealthFactorAgainst", <<collateral, debt, a, b>>)

PriceChangeAgainst(previous, price) ==
  Arith("PriceChangeAgainst", <<previous, price>>)

HealthChangeAgainst(a, b) == Arith("HealthChangeAgainst", <<a, b>>)

DblFloor(x) == Arith("DblFloor", <<x>>)

amountInUsei(amount) == Arith("amountInUsei", <<amount>>)

\* YeiFinance.calculateLeverageParams for the literals collateralSEI and
\* safetyBuffer, given as the fractions [n, d] they are written as;
\* targetLeverage is not read
calculateLeverageParams(collateralSEI, targetLeverage, safetyBuffer) ==
  Arith("calculateLeverageParams", <<collateralSEI, targetLeverage, safetyBuffer>>)

LeverageFromMax(collateralSEI, maxBorrowAmount, unbuffered) ==
  Arith("LeverageFromMax", <<collateralSEI, maxBorrowAmount, unbuffered>>)

LeverageFromSafe(collateralSEI, maxBorrowAmount, safeBorrowAmount) ==
  Arith("LeverageFromSafe", <<collateralSEI, maxBorrowAmount, safeBorrowAmount>>)

\* 1_000_000 usei are one SEI
UseiPerSei == 1000000

\* the double of a whole number
DblWhole(n) == [m |-> BigOfInt(n), e |-> 0]

DblLower(x, y) == IF x.e > y.e THEN y.e ELSE x.e

\* A double >= 0 is [m |-> whole number, e |-> integer] for m * 2^e.
Arith(op, x) ==
  Then(x,
  CASE op = "BigAdd" ->
         LET a == x[1]
             b == x[2]
         IN  BigNorm([i \in 1..(BigLonger(a, b) + 1) |->
                        (BigDigit(a, i) + BigDigit(b, i)
                           + (IF BigCarry(a, b, i) THEN 1 ELSE 0)) % Base])
    [] op = "BigSub" ->
         LET a == x[1]
             b == x[2]
         IN  BigNorm([i \in DOMAIN a |->
                        (a[i] - BigDigit(b, i)
                           - (IF BigBorrow(a, b, i) THEN 1 ELSE 0) + Base) % Base])
    \* a * k for a digit k: the low parts of the digit products, plus their
    \* high parts one digit up
    [] op = "BigMulDigit" ->
         LET a == x[1]
             k == x[2]
         IN  BigAdd([i \in DOMAIN a |-> (a[i] * k) % Base],
                    <<0>> \o [i \in DOMAIN a |-> (a[i] * k) \div Base])
    \* a * the digits of b from the i-th up
    [] op = "BigMulFrom" ->
         LET a == x[1]
             b == x[2]
             i == x[3]
         IN  IF i > Len(b) THEN <<>>
             ELSE BigAdd(BigMulDigit(a, b[i]), <<0>> \o BigMulFrom(a, b, i + 1))
    [] op = "BigMul" -> BigNorm(BigMulFrom(x[1], x[2], 1))
    \* a * 2^k
    [] op = "BigShl" ->
         LET a == x[1]
             k == x[2]
         IN  IF a = <<>> THEN <<>>
             ELSE [i \in 1..(k \div 15) |-> 0] \o BigMulDigit(a, Pow2(k % 15))
    \* the digit r \div b, for r < b * Base and b with its highest bit at the
    \* top of its highest digit: the quotient of the leading digits is at
    \* most 2 above
    [] op = "BigDivDigit" ->
         LET r   == x[1]
             b   == x[2]
             n   == Len(b)
             est == (BigDigit(r, n + 1) * Base + BigDigit(r, n)) \div b[n]
             hat == IF est > Base - 1 THEN Base - 1 ELSE est
         IN  IF BigCmp(BigMulDigit(b, hat), r) <= 0 THEN hat
             ELSE IF BigCmp(BigMulDigit(b, hat - 1), r) <= 0 THEN hat - 1
             ELSE hat - 2
    \* long division from digit i of a down, for such a b: quotient q and
    \* remainder r of the digits above i
    [] op = "BigDivModFrom" ->
         LET a  == x[1]
             b  == x[2]
             i  == x[3]
             q  == x[4]
             r  == x[5]
             r2 == BigNorm(<<a[i]>> \o r)
             k  == BigDivDigit(r2, b)
             r3 == BigSub(r2, BigMulDigit(b, k))
             q3 == <<k>> \o q
         IN  IF i = 0 THEN [q |-> BigNorm(q), r |-> r]
             ELSE Then(<<r3, q3>>, BigDivModFrom(a, b, i - 1, q3, r3))
    [] op = "BigDivMod" ->
         LET a == x[1]
             b == x[2]
         IN  IF Len(a) < Len(b) THEN [q |-> <<>>, r |-> a]
             ELSE BigDivModFrom(a, b, Len(a) - Len(b) + 1, <<>>,
                                BigNorm(SubSeq(a, Len(a) - Len(b) + 2, Len(a))))
    \* the double nearest to (num/den) * 2^scale, ties to the even mantissa,
    \* as every IEEE-754 operation rounds its exact result, for the operands
    \* num, den, scale: e is the exponent that gives the quotient 53 or 54
    \* bits
    [] op = "DblRound" ->
         IF x[1] = <<>> \/ x[2] = <<>> THEN [m |-> <<>>, e |-> 0]
         ELSE DblShifted(x[1], x[2], x[3], BigBitLen(x[1]) - BigBitLen(x[2]) - 53)
    \* for num, den, scale, e: num and den are shifted by e and so that den
    \* has its highest bit at the top of a digit, and divided
    [] op = "DblShifted" ->
         LET e   == x[4]
             top == (15 - ((BigBitLen(x[2]) + (IF e > 0 THEN e ELSE 0)) % 15)) % 15
             d1  == BigShl(x[2], top + (IF e > 0 THEN e ELSE 0))
         IN  DblQuotient(BigDivMod(BigShl(x[1], top + (IF e < 0 THEN 0 - e ELSE 0)),
                                   d1),
                         d1, x[3], e)
    \* for the quotient and remainder qr by d1, scale, e: a 54th bit of the
    \* quotient goes to the remainder
    [] op = "DblQuotient" ->
         LET long == BigBitLen(x[1].q) = 54
         IN  DblNearest(IF long THEN BigHalf(x[1].q) ELSE x[1].q,
                        IF long /\ BigOdd(x[1].q) THEN BigAdd(x[2], x[1].r)
                                                  ELSE x[1].r,
                        IF long THEN BigShl(x[2], 1) ELSE x[2],
                        x[3] + (IF long THEN x[4] + 1 ELSE x[4]))
    \* for the 53 bits q, the remainder r by d, and the exponent: up by one
    \* when r/d is above a half, or is a half and q is odd
    [] op = "DblNearest" ->
         LET half == BigCmp(BigShl(x[2], 1), x[3])
             up   == half > 0 \/ (half = 0 /\ BigOdd(x[1]))
         IN  [m |-> IF up THEN BigAdd(x[1], <<1>>) ELSE x[1], e |-> x[4]]
    \* the double of the decimal literal n/d
    [] op = "DblOf" -> DblRound(BigOfInt(x[1]), BigOfInt(x[2]), 0)
    \* the mantissa of x[1] at the smaller exponent of x[1] and x[2]
    [] op = "DblAligned" ->
         IF x[1].e > x[2].e THEN BigShl(x[1].m, x[1].e - x[2].e) ELSE x[1].m
    \* x[1] * x[2], x[1] / x[2] (x[2] > 0) and x[1] - x[2] (x[1] >= x[2]) as
    \* the processor rounds them
    [] op = "DblMul" ->
         DblRound(BigMul(x[1].m, x[2].m), <<1>>, x[1].e + x[2].e)
    [] op = "DblDiv" -> DblRound(x[1].m, x[2].m, x[1].e - x[2].e)
    [] op = "DblSub" ->
         IF x[2].m = <<>> THEN x[1]
         ELSE DblRound(BigSub(DblAligned(x[1], x[2]), DblAligned(x[2], x[1])),
                       <<1>>, DblLower(x[1], x[2]))
    \* 1, 0, -1 for x[1] >, =, < x[2]
    [] op = "DblCmp" ->
         IF x[1].m = <<>> \/ x[2].m = <<>>
           THEN (IF x[1].m # <<>> THEN 1 ELSE IF x[2].m # <<>> THEN 0 - 1 ELSE 0)
           ELSE BigCmp(DblAligned(x[1], x[2]), DblAligned(x[2], x[1]))
    \* the healthFactor of getPositionHealth as the double the code computes:
    \* (collateral * 0.8) / debt, for whole amounts x[1], x[2] and debt > 0
    [] op = "healthFactorDouble" ->
         DblDiv(DblMul(DblWhole(x[1]), DblOf(8, 10)), DblWhole(x[2]))
    \* 1, 0, -1 for that healthFactor >, =, < the literal x[3]/x[4]
    [] op = "HealthFactorAgainst" ->
         DblCmp(healthFactorDouble(x[1], x[2]), DblOf(x[3], x[4]))
    \* 1, 0, -1 for Math.abs((price - previous) / previous) >, =, < 0.1, for
    \* the prices previous = x[1] > 0 and price = x[2] in hundredths
    [] op = "PriceChangeAgainst" ->
         LET q == DblOf(x[1], 100)
             p == DblOf(x[2], 100)
         IN  DblCmp(DblDiv(IF x[2] > x[1] THEN DblSub(p, q) ELSE DblSub(q, p), q),
                    DblOf(1, 10))
    \* 1, 0, -1 for healthFactor of x[1] - healthFactor of x[2] >, =, < 0.1,
    \* for positions or snapshots of which x[1] has the greater
    [] op = "HealthChangeAgainst" ->
         DblCmp(DblSub(healthFactorDouble(x[1].collateral, x[1].debt),
                       healthFactorDouble(x[2].collateral, x[2].debt)),
                DblOf(1, 10))
    \* Math.floor(x[1]), below 2^31
    [] op = "DblFloor" ->
         BigToInt(IF x[1].e < 0 THEN BigShr(x[1].m, 0 - x[1].e)
                  ELSE BigShl(x[1].m, x[1].e))
    \* Math.floor(amount * 1_000_000), for the amount x[1] in SEI
    [] op = "amountInUsei" -> DblFloor(DblMul(x[1], DblWhole(UseiPerSei)))
    \* calculateLeverageParams in the code's doubles, ltv 0.75 and
    \* liquidationThreshold 0.80: maxBorrowAmount = collateralSEI * 0.75 and
    \* 1 - safetyBuffer, for collateralSEI > 0 and 0 <= safetyBuffer < 1
    [] op = "calculateLeverageParams" ->
         LeverageFromMax(DblOf(x[1].n, x[1].d),
                         DblMul(DblOf(x[1].n, x[1].d), DblOf(75, 100)),
                         DblSub(DblWhole(1), DblOf(x[3].n, x[3].d)))
    \* safeBorrowAmount = maxBorrowAmount * (1 - safetyBuffer)
    [] op = "LeverageFromMax" -> LeverageFromSafe(x[1], x[2], DblMul(x[2], x[3]))
    \* resultingLTV = safeBorrowAmount / collateralSEI, healthFactor =
    \* (collateralSEI * 0.80) / safeBorrowAmount, liquidationPrice =
    \* safeBorrowAmount / (collateralSEI * 0.80)
    [] op = "LeverageFromSafe" ->
         [maxBorrowAmount  |-> x[2],
          safeBorrowAmount |-> x[3],
          resultingLTV     |-> DblDiv(x[3], x[1]),
          healthFactor     |-> DblDiv(DblMul(x[1], DblOf(80, 100)), x[3]),
          liquidationPrice |-> DblDiv(x[3], DblMul(x[1], DblOf(80, 100)))])

----------------------------------------------------------------------------
(* YeiFinanceClient *)

\* getPositionHealth, after the contract query answered
getPositionHealth(data) ==
  [collateral   |-> data.collateral,
   debt         |-> data.debt,
   healthFactor |-> Frac(data.collateral * 8, data.debt * 10),
   ltv          |-> Frac(data.debt, data.collateral)]

\* HealthFactorAgainst computed once for the replies drawn above that equal
\* a threshold of the program as fractions
HealthFactorTies ==
  {<<t[1].collateral, t[1].debt, t[2],
     HealthFactorAgainst(t[1].collateral, t[1].debt, t[2], 10)>> :
     t \in {u \in (Positions \cup WidePositions \cup MonitorPositions)
                      \X {11, 12, 13, 15, 20} :
               u[1].debt > 0 /\ u[1].collateral * 8 = u[2] * u[1].debt}}

HealthFactorSign(collateral, debt, a, b) ==
  LET known == {t \in HealthFactorTies :
                  t[1] = collateral /\ t[2] = debt /\ t[3] * b = a * 10}
  IN  IF known # {} THEN (CHOOSE t \in known : TRUE)[4]
      ELSE HealthFactorAgainst(collateral, debt, a, b)

\* healthFactor < a/b and healthFactor > a/b as the code's doubles compare,
\* for a position or snapshot s
HealthFactorLess(s, a, b) ==
  IF s.healthFactor.d # 0 /\ s.healthFactor.n * b = a * s.healthFactor.d
    THEN HealthFactorSign(s.collateral, s.debt, a, b) < 0
    ELSE FracLess(s.healthFactor, a, b)

HealthFactorGreater(s, a, b) ==
  IF s.healthFactor.d # 0 /\ s.healthFactor.n * b = a * s.healthFactor.d
    THEN HealthFactorSign(s.collateral, s.debt, a, b) > 0
    ELSE FracGreater(s.healthFactor, a, b)

calculateLiquidationPrice(collateral, debt) == Frac(debt * 10, collateral * 8)

----------------------------------------------------------------------------
(* LeverageMonitor *)

\* Array.prototype.slice(-n)
SliceLast(s, n) ==
  IF Len(s) > n THEN SubSeq(s, Len(s) - n + 1, Len(s)) ELSE s

\* calculatePnL, in units of 1/3650000 SEI-dollars
calculatePnL(collateral, debt, currentPrice) ==
  (collateral * currentPrice - collateral * 45) * 36500 - debt * currentPrice * 12

Snapshot(position, seiPrice, t) ==
  [timestamp        |-> t,
   collateral       |-> position.collateral,
   debt             |-> position.debt,
   healthFactor     |-> position.healthFactor,
   ltv              |-> position.ltv,
   seiPrice         |-> seiPrice,
   liquidationPrice |-> calculateLiquidationPrice(position.collateral, position.debt),
   netPnL           |-> calculatePnL(position.collateral, position.debt, seiPrice)]

\* PushSnapshot with the trim keeping the first 100: slice(0, 100)
PushSnapshotKeepsOldest(snaps, snapshot) ==
  LET pushed == Append(snaps, snapshot)
  IN  IF Len(pushed) > SnapshotCapacity
        THEN SubSeq(pushed, 1, SnapshotCapacity)
        ELSE pushed

\* this.snapshots.push(snapshot) and the trim to the last 100
PushSnapshot(snaps, snapshot) ==
  LET pushed == Append(snaps, snapshot)
  IN  IF Len(pushed) > SnapshotCapacity
        THEN SliceLast(pushed, SnapshotCapacity)
        ELSE pushed

Alert(level, message, actionRequired, t) ==
  [level |-> level, message |-> message, timestamp |-> t,
   actionRequired |-> actionRequired]

\* addAlert without the trim
addAlertUntrimmed(al, level, message, actionRequired, t) ==
  Append(al, Alert(level, message, actionRequired, t))

\* addAlert: the value of this.alerts after the call
addAlert(al, level, message, actionRequired, t) ==
  LET pushed == Append(al, Alert(level, message, actionRequired, t))
  IN  IF Len(pushed) > AlertCapacity
        THEN SliceLast(pushed, AlertCapacity)
        ELSE pushed

\* IsCritical with the threshold of the WARNING alert
IsCriticalBelowSafe(snapshot) == HealthFactorLess(snapshot, 15, 10)

\* the condition that adds the CRITICAL alert and triggers the emergency
IsCritical(snapshot) == HealthFactorLess(snapshot, 12, 10)

IsLowHealth(snapshot) == HealthFactorLess(snapshot, 15, 10)

\* PriceChangeAgainst computed once for the prices drawn above that differ
\* by 10% as fractions
PriceTies ==
  {<<t[1], t[2], PriceChangeAgainst(t[1], t[2])>> :
     t \in {u \in ({MockPrice} \cup Prices \cup WidePrices)
                      \X ({MockPrice} \cup Prices \cup WidePrices) :
               (u[2] - u[1]) * 10 = u[1] \/ (u[1] - u[2]) * 10 = u[1]}}

PriceChangeSign(previous, price) ==
  LET known == {t \in PriceTies : t[1] = previous /\ t[2] = price}
  IN  IF known # {} THEN (CHOOSE t \in known : TRUE)[3]
      ELSE PriceChangeAgainst(previous, price)

\* Math.abs((price - previous) / previous) > 0.1
IsPriceMove(snapshot, previous) ==
  LET diff == snapshot.seiPrice - previous.seiPrice
      abs  == IF diff < 0 THEN 0 - diff ELSE diff
  IN  IF previous.seiPrice > 0 /\ abs * 10 = previous.seiPrice
        THEN PriceChangeSign(previous.seiPrice, snapshot.seiPrice) > 0
        ELSE abs * 10 > previous.seiPrice

\* IsHighLTV with the threshold 0.6
IsHighLTVAbove60(snapshot) == FracGreater(snapshot.ltv, 6, 10)

IsHighLTV(snapshot) == FracGreater(snapshot.ltv, 7, 10)

\* AlertsFor latched: no health-factor alert for a snapshot that follows a
\* snapshot with healthFactor < 1.2
AlertsForLatched(snapshot, snaps, t) ==
  LET latched == Len(snaps) >= 2 /\ IsCritical(snaps[Len(snaps) - 1])
      health == IF latched THEN <<>>
                ELSE IF IsCritical(snapshot)
                  THEN <<Alert("CRITICAL", "URGENT: Health factor", TRUE, t)>>
                ELSE IF IsLowHealth(snapshot)
                  THEN <<Alert("WARNING", "Low health factor", FALSE, t)>>
                ELSE <<>>
      price  == IF Len(snaps) >= 2 /\ IsPriceMove(snapshot, snaps[Len(snaps) - 1])
                  THEN <<Alert("WARNING", "SEI price moved", FALSE, t)>>
                  ELSE <<>>
      ltv    == IF IsHighLTV(snapshot)
                  THEN <<Alert("WARNING", "High LTV", TRUE, t)>>
                  ELSE <<>>
  IN  health \o price \o ltv

\* AlertsFor with a high-LTV alert that asks for no action
AlertsForLTVAdvisory(snapshot, snaps, t) ==
  LET health == IF IsCritical(snapshot)
                  THEN <<Alert("CRITICAL", "URGENT: Health factor", TRUE, t)>>
                ELSE IF IsLowHealth(snapshot)
                  THEN <<Alert("WARNING", "Low health factor", FALSE, t)>>
                ELSE <<>>
      price  == IF Len(snaps) >= 2 /\ IsPriceMove(snapshot, snaps[Len(snaps) - 1])
                  THEN <<Alert("WARNING", "SEI price moved", FALSE, t)>>
                  ELSE <<>>
      ltv    == IF IsHighLTV(snapshot)
                  THEN <<Alert("WARNING", "High LTV", FALSE, t)>>
                  ELSE <<>>
  IN  health \o price \o ltv

\* checkAlertConditions: the alerts it emits, in order; snaps is
\* this.snapshots with the snapshot already pushed
AlertsFor(snapshot, snaps, t) ==
  LET health == IF IsCritical(snapshot)
                  THEN <<Alert("CRITICAL", "URGENT: Health factor", TRUE, t)>>
                ELSE IF IsLowHealth(snapshot)
                  THEN <<Alert("WARNING", "Low health factor", FALSE, t)>>
                ELSE <<>>
      price  == IF Len(snaps) >= 2 /\ IsPriceMove(snapshot, snaps[Len(snaps) - 1])
                  THEN <<Alert("WARNING", "SEI price moved", FALSE, t)>>
                  ELSE <<>>
      ltv    == IF IsHighLTV(snapshot)
                  THEN <<Alert("WARNING", "High LTV", TRUE, t)>>
                  ELSE <<>>
  IN  health \o price \o ltv

RECURSIVE AddAlerts(_, _)
AddAlerts(al, new) ==
  IF new = <<>> THEN al
  ELSE AddAlerts(addAlert(al, new[1].level, new[1].message,
                          new[1].actionRequired, new[1].timestamp), Tail(new))

NoPosition == [collateral |-> 0, debt |-> 0, healthFactor |-> Frac(0, 0),
               ltv |-> Frac(0, 0)]

Ev(op, id) == [op |-> op, id |-> id]

\* performHealthCheck up to its first await: the position query is sent
BeginCycle(id) ==
  /\ cycles' = cycles \cup {[id |-> id, pc |-> "position", position |-> NoPosition]}
  /\ started' = id

Init ==
  /\ isMonitoring = FALSE
  /\ timers = 0
  /\ cycles = {}
  /\ emergencies = {}
  /\ snapshots = <<>>
  /\ alerts = <<>>
  /\ repays = <<>>
  /\ now = 0
  /\ started = 0
  /\ allSnapshots = <<>>
  /\ allAlerts = <<>>
  /\ triggered = 0
  /\ event = Ev("new", 0)

\* startMonitoring() without the isMonitoring guard
StartMonitoringUnguarded ==
  /\ isMonitoring
  /\ started < MaxCycles
  /\ BeginCycle(started + 1)
  /\ timers' = timers + 1
  /\ event' = Ev("start", started + 1)
  /\ UNCHANGED <<isMonitoring, emergencies, snapshots, alerts, repays, now,
                 allSnapshots, allAlerts, triggered>>

\* startMonitoring() while monitoring is active
StartMonitoringActive ==
  /\ isMonitoring
  /\ event' = Ev("start", 0)
  /\ UNCHANGED <<isMonitoring, timers, cycles, emergencies, snapshots, alerts,
                 repays, now, started, allSnapshots, allAlerts, triggered>>

\* startMonitoring() while monitoring is not active
StartMonitoringIdle(maxCycles) ==
  /\ ~isMonitoring
  /\ started < maxCycles
  /\ isMonitoring' = TRUE
  /\ BeginCycle(started + 1)
  /\ timers' = timers + 1
  /\ event' = Ev("start", started + 1)
  /\ UNCHANGED <<emergencies, snapshots, alerts, repays, now, allSnapshots,
                 allAlerts, triggered>>

StopMonitoring ==
  /\ isMonitoring' = FALSE
  /\ event' = Ev("stop", 0)
  /\ UNCHANGED <<timers, cycles, emergencies, snapshots, alerts, repays, now,
                 started, allSnapshots, allAlerts, triggered>>

\* the callback of a setInterval timer
TimerTick(maxCycles) ==
  /\ timers > 0
  /\ started < maxCycles
  /\ BeginCycle(started + 1)
  /\ event' = Ev("tick", started + 1)
  /\ UNCHANGED <<isMonitoring, timers, emergencies, snapshots, alerts, repays,
                 now, allSnapshots, allAlerts, triggered>>

\* time passes
Advance(maxTime) ==
  /\ now < maxTime
  /\ now' = now + 1
  /\ event' = Ev("clock", 0)
  /\ UNCHANGED <<isMonitoring, timers, cycles, emergencies, snapshots, alerts,
                 repays, started, allSnapshots, allAlerts, triggered>>

----------------------------------------------------------------------------
(* performHealthCheck, one action per continuation *)

\* PositionFails with the alert at level WARNING
PositionFailsWarns(c) ==
  /\ c \in cycles /\ c.pc = "position"
  /\ cycles' = cycles \ {c}
  /\ alerts' = addAlert(alerts, "WARNING", "Health check failed", TRUE, now)
  /\ allAlerts' = Append(allAlerts, Alert("WARNING", "Health check failed", TRUE, now))
  /\ event' = Ev("checkFailed", c.id)
  /\ UNCHANGED <<isMonitoring, timers, emergencies, snapshots, repays, now,
                 started, allSnapshots, triggered>>

\* PositionFails with a catch block that only logs
PositionFailsSilently(c) ==
  /\ c \in cycles /\ c.pc = "position"
  /\ cycles' = cycles \ {c}
  /\ event' = Ev("checkFailed", c.id)
  /\ UNCHANGED <<isMonitoring, timers, emergencies, snapshots, alerts, repays,
                 now, started, allSnapshots, allAlerts, triggered>>

\* PositionFails with a catch block that also gives up monitoring
PositionFailsStops(c) ==
  /\ c \in cycles /\ c.pc = "position"
  /\ cycles' = cycles \ {c}
  /\ alerts' = addAlert(alerts, "CRITICAL", "Health check failed", TRUE, now)
  /\ allAlerts' = Append(allAlerts, Alert("CRITICAL", "Health check failed", TRUE, now))
  /\ isMonitoring' = FALSE
  /\ timers' = 0
  /\ event' = Ev("checkFailed", c.id)
  /\ UNCHANGED <<emergencies, snapshots, repays, now, started, allSnapshots,
                 triggered>>

\* await getPositionHealth rejects: the catch block adds the alert
PositionFails(c) ==
  /\ c \in cycles /\ c.pc = "position"
  /\ cycles' = cycles \ {c}
  /\ alerts' = addAlert(alerts, "CRITICAL", "Health check failed", TRUE, now)
  /\ allAlerts' = Append(allAlerts, Alert("CRITICAL", "Health check failed", TRUE, now))
  /\ event' = Ev("checkFailed", c.id)
  /\ UNCHANGED <<isMonitoring, timers, emergencies, snapshots, repays, now,
                 started, allSnapshots, triggered>>

\* await getPositionHealth resolves: the price query is sent
PositionReplies(c, data) ==
  /\ c \in cycles /\ c.pc = "position"
  /\ cycles' = (cycles \ {c}) \cup
                 {[c EXCEPT !.pc = "price", !.position = getPositionHealth(data)]}
  /\ event' = Ev("position", c.id)
  /\ UNCHANGED <<isMonitoring, timers, emergencies, snapshots, alerts, repays,
                 now, started, allSnapshots, allAlerts, triggered>>

\* triggerEmergencyProcedures up to its first await
BeginEmergency(em, id) ==
  em \cup {[id |-> id, pc |-> "position", position |-> NoPosition]}

\* the rest of the try block, once getSEIPrice has returned seiPrice
CompleteCycle(c, seiPrice, op) ==
  LET snapshot == Snapshot(c.position, seiPrice, now)
      pushed   == PushSnapshot(snapshots, snapshot)
      new      == AlertsFor(snapshot, pushed, now)
  IN  /\ cycles' = cycles \ {c}
      /\ snapshots' = pushed
      /\ allSnapshots' = Append(allSnapshots, snapshot)
      /\ alerts' = AddAlerts(alerts, new)
      /\ allAlerts' = allAlerts \o new
      /\ IF IsCritical(snapshot)
           THEN /\ emergencies' = BeginEmergency(emergencies, c.id)
                /\ triggered' = triggered + 1
           ELSE UNCHANGED <<emergencies, triggered>>
      /\ event' = Ev(op, c.id)
      /\ UNCHANGED <<isMonitoring, timers, repays, now, started>>

\* getSEIPrice returns the oracle's price
PriceReplies(c, price) ==
  /\ c \in cycles /\ c.pc = "price"
  /\ CompleteCycle(c, price, "snapshot")

\* getSEIPrice catches the oracle's failure and returns the mock price
PriceFails(c) ==
  /\ c \in cycles /\ c.pc = "price"
  /\ CompleteCycle(c, MockPrice, "snapshotMockPrice")

----------------------------------------------------------------------------
(* triggerEmergencyProcedures, one action per continuation *)

autoExecutionEnabled == FALSE

GasReserve == 1

repayAmount(position) == Frac(position.debt * 25, 100)

\* the health factor the emergency procedure projects (and logs):
\* (position.collateral * 0.8) / (position.debt - repayAmount)
projectedHealthFactor(position) ==
  Frac(position.collateral * 8 * repayAmount(position).d,
       10 * (position.debt * repayAmount(position).d - repayAmount(position).n))

\* parseFloat(balance) >= repayAmount + 1
HasFunds(balance, repay) == balance * repay.d >= repay.n + GasReserve * repay.d

\* SufficientBranch with the emergencyRepay call uncommented
SufficientBranchSubmits(submitted, repay, balance) ==
  Append(submitted, [amount |-> repay, balance |-> balance])

\* the branch taken with sufficient balance: the emergencyRepay call is a comment
SufficientBranch(submitted, repay, balance) == submitted

EmergencyPositionFails(e) ==
  /\ e \in emergencies /\ e.pc = "position"
  /\ emergencies' = emergencies \ {e}
  /\ event' = Ev("emergencyFailed", e.id)
  /\ UNCHANGED <<isMonitoring, timers, cycles, snapshots, alerts, repays, now,
                 started, allSnapshots, allAlerts, triggered>>

EmergencyPositionReplies(e, data) ==
  /\ e \in emergencies /\ e.pc = "position"
  /\ emergencies' = (emergencies \ {e}) \cup
                      {[e EXCEPT !.pc = "balance", !.position = getPositionHealth(data)]}
  /\ event' = Ev("emergencyPosition", e.id)
  /\ UNCHANGED <<isMonitoring, timers, cycles, snapshots, alerts, repays, now,
                 started, allSnapshots, allAlerts, triggered>>

EmergencyBalanceFails(e) ==
  /\ e \in emergencies /\ e.pc = "balance"
  /\ emergencies' = emergencies \ {e}
  /\ event' = Ev("emergencyFailed", e.id)
  /\ UNCHANGED <<isMonitoring, timers, cycles, snapshots, alerts, repays, now,
                 started, allSnapshots, allAlerts, triggered>>

EmergencyBalanceReplies(e, balance) ==
  /\ e \in emergencies /\ e.pc = "balance"
  /\ emergencies' = emergencies \ {e}
  /\ IF HasFunds(balance, repayAmount(e.position))
       THEN /\ repays' = SufficientBranch(repays, repayAmount(e.position), balance)
            /\ event' = Ev("emergencySufficient", e.id)
       ELSE /\ repays' = repays
            /\ event' = Ev("emergencyInsufficient", e.id)
  /\ UNCHANGED <<isMonitoring, timers, cycles, snapshots, alerts, now,
                 started, allSnapshots, allAlerts, triggered>>

----------------------------------------------------------------------------
(* The monitor with its callers, its timers and its sources: any number of  *)
(* calls and timer callbacks may be suspended at once, and every reply of   *)
(* a source may be a value or a failure.  No time passes (new Date() reads  *)
(* one value throughout).                                                   *)

Next ==
  \/ StartMonitoringActive
  \/ StartMonitoringIdle(MaxCycles)
  \/ StopMonitoring
  \/ TimerTick(MaxCycles)
  \/ \E c \in cycles : PositionFails(c)
  \/ \E c \in cycles, data \in Positions : PositionReplies(c, data)
  \/ \E c \in cycles, price \in Prices : PriceReplies(c, price)
  \/ \E c \in cycles : PriceFails(c)
  \/ \E e \in emergencies : EmergencyPositionFails(e)
  \/ \E e \in emergencies, data \in Positions : EmergencyPositionReplies(e, data)
  \/ \E e \in emergencies : EmergencyBalanceFails(e)
  \/ \E e \in emergencies, balance \in Balances : EmergencyBalanceReplies(e, balance)

Spec == Init /\ [][Next]_vars

----------------------------------------------------------------------------
(* getDashboard *)

\* calculateDailyYield: (collateral + debt) * 0.08 / 365
calculateDailyYield(snaps) ==
  IF Len(snaps) < 2 THEN Frac(0, 1)
  ELSE Frac((snaps[Len(snaps)].collateral + snaps[Len(snaps)].debt) * 8, 36500)

\* HealthChangeAgainst computed once for the replies drawn above whose
\* health factors differ by 0.1 as fractions
HealthChangeTies ==
  {<<t[1].collateral, t[1].debt, t[2].collateral, t[2].debt,
     HealthChangeAgainst(t[1], t[2])>> :
     t \in {u \in (Positions \cup WidePositions) \X (Positions \cup WidePositions) :
               /\ u[1].debt > 0 /\ u[2].debt > 0
               /\ (u[1].collateral * u[2].debt - u[2].collateral * u[1].debt) * 80
                    = 10 * u[1].debt * u[2].debt}}

HealthChangeSign(a, b) ==
  LET known == {t \in HealthChangeTies :
                  /\ t[1] = a.collateral /\ t[2] = a.debt
                  /\ t[3] = b.collateral /\ t[4] = b.debt}
  IN  IF known # {} THEN (CHOOSE t \in known : TRUE)[5]
      ELSE HealthChangeAgainst(a, b)

\* the healthTrend of getDashboard: recent[2].healthFactor -
\* recent[0].healthFactor against 0.1 and -0.1.  The difference of a.n/a.d
\* and b.n/b.d is trend/(a.d * b.d); where it is 0.1 or -0.1 as a fraction,
\* the difference of the doubles decides
healthTrend(snaps) ==
  IF Len(snaps) >= 3
    THEN LET recent == SliceLast(snaps, 3)
             a      == recent[3].healthFactor
             b      == recent[1].healthFactor
             trend  == a.n * b.d - b.n * a.d
         IN  IF a.d * b.d # 0 /\ trend * 10 = a.d * b.d
               THEN IF HealthChangeSign(recent[3], recent[1]) > 0
                      THEN "IMPROVING" ELSE "STABLE"
             ELSE IF a.d * b.d # 0 /\ trend * 10 = 0 - a.d * b.d
               THEN IF HealthChangeSign(recent[1], recent[3]) > 0
                      THEN "DECLINING" ELSE "STABLE"
             ELSE IF trend * 10 > a.d * b.d THEN "IMPROVING"
             ELSE IF trend * 10 < 0 - a.d * b.d THEN "DECLINING"
             ELSE "STABLE"
    ELSE "STABLE"

\* getDashboard returning the whole alert history
getDashboardAllAlerts(snaps, al) ==
  [currentPosition |-> IF Len(snaps) > 0 THEN <<snaps[Len(snaps)]>> ELSE <<>>,
   recentAlerts    |-> al,
   performance     |-> [totalPnL    |-> IF Len(snaps) > 0 THEN snaps[Len(snaps)].netPnL
                                        ELSE 0,
                        dailyYield  |-> calculateDailyYield(snaps),
                        healthTrend |-> healthTrend(snaps)]]

\* getDashboard: the value it returns; currentPosition is <<>> for null and
\* <<snapshot>> otherwise
getDashboard(snaps, al) ==
  [currentPosition |-> IF Len(snaps) > 0 THEN <<snaps[Len(snaps)]>> ELSE <<>>,
   recentAlerts    |-> SliceLast(al, 10),
   performance     |-> [totalPnL    |-> IF Len(snaps) > 0 THEN snaps[Len(snaps)].netPnL
                                        ELSE 0,
                        dailyYield  |-> calculateDailyYield(snaps),
                        healthTrend |-> healthTrend(snaps)]]

\* a call of getDashboard(); event keeps what it returned
GetDashboard ==
  /\ event' = [op |-> "getDashboard", id |-> 0,
               result |-> getDashboard(snapshots, alerts)]
  /\ UNCHANGED <<isMonitoring, timers, cycles, emergencies, snapshots, alerts,
                 repays, now, started, allSnapshots, allAlerts, triggered>>

----------------------------------------------------------------------------
(* A long run of the monitor: one call of startMonitoring, then one timer  *)
(* callback after the other, each begun when the one before and its        *)
(* emergency procedure have finished and the clock has moved on.  The      *)
(* sources answer the first cycles by a fixed script of the cycle's        *)
(* number, which fills both histories, and the last FreeCycles cycles in   *)
(* every way they can; getDashboard() is called at any moment.           *)

Scripted(id) == id <= MaxHistCycles - FreeCycles

ScriptPositionFails(id) == id % 5 = 0

ScriptPosition(id) ==
  IF id % 3 = 1 THEN [collateral |-> 100, debt |-> 80]
  ELSE IF id % 3 = 2 THEN [collateral |-> 150, debt |-> 100]
  ELSE [collateral |-> 200, debt |-> 100]

ScriptPriceFails(id) == id % 2 = 0

ScriptEmergencyFails(id) == id % 4 = 0

ScriptBalanceFails(id) == id % 4 = 2

ScriptBalance(id) == IF id % 8 = 1 THEN 21 ELSE 20

Quiet == cycles = {} /\ emergencies = {}

NextHist ==
  \/ StartMonitoringIdle(MaxHistCycles)
  \/ Quiet /\ now = started /\ TimerTick(MaxHistCycles)
  \/ Quiet /\ now < started /\ Advance(MaxHistCycles)
  \/ \E c \in cycles :
       /\ Scripted(c.id) => ScriptPositionFails(c.id)
       /\ PositionFails(c)
  \/ \E c \in cycles, data \in Positions :
       /\ Scripted(c.id) => ~ScriptPositionFails(c.id) /\ data = ScriptPosition(c.id)
       /\ PositionReplies(c, data)
  \/ \E c \in cycles, price \in Prices :
       /\ Scripted(c.id) => ~ScriptPriceFails(c.id)
       /\ PriceReplies(c, price)
  \/ \E c \in cycles :
       /\ Scripted(c.id) => ScriptPriceFails(c.id)
       /\ PriceFails(c)
  \/ \E e \in emergencies :
       /\ Scripted(e.id) => ScriptEmergencyFails(e.id)
       /\ EmergencyPositionFails(e)
  \/ \E e \in emergencies, data \in Positions :
       /\ Scripted(e.id) => ~ScriptEmergencyFails(e.id) /\ data = ScriptPosition(e.id)
       /\ EmergencyPositionReplies(e, data)
  \/ \E e \in emergencies :
       /\ Scripted(e.id) => ScriptBalanceFails(e.id)
       /\ EmergencyBalanceFails(e)
  \/ \E e \in emergencies, balance \in Balances :
       /\ Scripted(e.id) => ~ScriptBalanceFails(e.id) /\ balance = ScriptBalance(e.id)
       /\ EmergencyBalanceReplies(e, balance)
  \/ GetDashboard

SpecHist == Init /\ [][NextHist]_vars

----------------------------------------------------------------------------
(* A short run of the monitor with every kind of position the lending pool  *)
(* can report: one call of startMonitoring, then one timer callback after   *)
(* the other as in the long run, with every reply free, and with            *)
(* getDashboard() called at any moment.                                     *)

MaxWideCycles == 3

NextWide ==
  \/ StartMonitoringIdle(MaxWideCycles)
  \/ Quiet /\ now = started /\ TimerTick(MaxWideCycles)
  \/ Quiet /\ now < started /\ Advance(MaxWideCycles)
  \/ \E c \in cycles : PositionFails(c)
  \/ \E c \in cycles, data \in WidePositions : PositionReplies(c, data)
  \/ \E c \in cycles, price \in WidePrices : PriceReplies(c, price)
  \/ \E c \in cycles : PriceFails(c)
  \/ \E e \in emergencies : EmergencyPositionFails(e)
  \/ \E e \in emergencies, data \in WidePositions : EmergencyPositionReplies(e, data)
  \/ \E e \in emergencies : EmergencyBalanceFails(e)
  \/ \E e \in emergencies, balance \in Balances : EmergencyBalanceReplies(e, balance)
  \/ GetDashboard

SpecWide == Init /\ [][NextWide]_vars

----------------------------------------------------------------------------
(* The monitor with its callers, its timers and its sources as in Spec,    *)
(* and with time passing: the clock may move on between any two steps.     *)
(* startMonitoring() begins monitoring before the clock has moved on, and  *)
(* a timer calls back after it has: an interval lies between the           *)
(* registration of a timer and each of its callbacks.                      *)

MaxTime == 1

NextClocked ==
  \/ StartMonitoringActive
  \/ now = 0 /\ StartMonitoringIdle(MaxCycles)
  \/ StopMonitoring
  \/ now > 0 /\ TimerTick(MaxCycles)
  \/ \E c \in cycles : PositionFails(c)
  \/ \E c \in cycles, data \in Positions : PositionReplies(c, data)
  \/ \E c \in cycles, price \in Prices : PriceReplies(c, price)
  \/ \E c \in cycles : PriceFails(c)
  \/ \E e \in emergencies : EmergencyPositionFails(e)
  \/ \E e \in emergencies, data \in Positions : EmergencyPositionReplies(e, data)
  \/ \E e \in emergencies : EmergencyBalanceFails(e)
  \/ \E e \in emergencies, balance \in Balances : EmergencyBalanceReplies(e, balance)
  \/ Advance(MaxTime)

SpecClocked == Init /\ [][NextClocked]_vars

----------------------------------------------------------------------------
(* Functions of one argument list, called on their own: the call and its   *)
(* arguments are drawn at the start, and one step returns the result.      *)

MaxCollateral == 4

BufferSteps == 20

CollateralSteps == 10

\* the status printed by displayPositionStatus
displayPositionStatus(snapshot) ==
  IF HealthFactorGreater(snapshot, 20, 10) THEN "HEALTHY"
  ELSE IF HealthFactorGreater(snapshot, 15, 10) THEN "STABLE"
  ELSE IF HealthFactorGreater(snapshot, 12, 10) THEN "WARNING"
  ELSE "CRITICAL"

MaxAmount == 12

\* SEILeverageCalculator.calculateLeverageParams (strategies/leverage.ts):
\* maxSafeLTV = (1 - 1/targetLeverage) - safetyBuffer, for fractions
\* targetLeverage >= 0 and safetyBuffer; nothing is validated
SEILeverageCalculator_calculateLeverageParams(collateralSEI, targetLeverage, safetyBuffer) ==
  LET maxSafeLTV     == Frac(targetLeverage.n * safetyBuffer.d
                               - targetLeverage.d * safetyBuffer.d
                               - safetyBuffer.n * targetLeverage.n,
                             targetLeverage.n * safetyBuffer.d)
      borrowAmount   == Frac(collateralSEI * maxSafeLTV.n, maxSafeLTV.d)
      totalExposure  == Frac(collateralSEI * maxSafeLTV.d + borrowAmount.n,
                             maxSafeLTV.d)
      actualLeverage == IF collateralSEI < 0
                          THEN Frac(0 - totalExposure.n,
                                    0 - totalExposure.d * collateralSEI)
                          ELSE Frac(totalExposure.n, totalExposure.d * collateralSEI)
  IN  [strategy             |-> "silo-borrow",
       collateralAmount     |-> collateralSEI,
       borrowedAmount       |-> borrowAmount,
       leverageRatio        |-> actualLeverage,
       liquidationThreshold |-> 0,
       currentLTV           |-> maxSafeLTV]

\* YeiFinance.monitorPosition: liquidationRisk = Math.max(0, (1.5 -
\* healthFactor) / 0.5), for the position getPositionHealth returned, whose
\* healthFactor is a number
monitorPosition(position) ==
  LET hf   == position.healthFactor
      risk == 15 * hf.d - 10 * hf.n
  IN  [status          |-> IF HealthFactorLess(position, 11, 10) THEN "CRITICAL"
                           ELSE IF HealthFactorLess(position, 13, 10) THEN "WARNING"
                           ELSE "HEALTHY",
       healthFactor    |-> hf,
       liquidationRisk |-> Frac(IF risk > 0 THEN risk ELSE 0, 5 * hf.d)]

\* a + b for fractions of which one denominator divides the other
FracAdd(a, b) ==
  IF a.d >= b.d THEN Frac(a.n + b.n * (a.d \div b.d), a.d)
  ELSE Frac(a.n * (b.d \div a.d) + b.n, b.d)

\* the while loop of createLiquidStakingLoop without the limit of 5 rounds
RECURSIVE StakingRoundsUnlimited(_, _, _, _)
StakingRoundsUnlimited(iterations, currentSEI, totalStaked, round) ==
  IF currentSEI.n > currentSEI.d
    THEN StakingRoundsUnlimited(
           Append(iterations, [round  |-> round,
                               stake  |-> currentSEI,
                               borrow |-> Frac(currentSEI.n * 7, currentSEI.d * 10)]),
           Frac(currentSEI.n * 7, currentSEI.d * 10),
           FracAdd(totalStaked, currentSEI),
           round + 1)
    ELSE [totalExposure |-> totalStaked, iterations |-> iterations]

\* the while loop of createLiquidStakingLoop: round <= 5 && currentSEI > 1
RECURSIVE StakingRounds(_, _, _, _)
StakingRounds(iterations, currentSEI, totalStaked, round) ==
  IF round <= 5 /\ currentSEI.n > currentSEI.d
    THEN StakingRounds(
           Append(iterations, [round  |-> round,
                               stake  |-> currentSEI,
                               borrow |-> Frac(currentSEI.n * 7, currentSEI.d * 10)]),
           Frac(currentSEI.n * 7, currentSEI.d * 10),
           FracAdd(totalStaked, currentSEI),
           round + 1)
    ELSE [totalExposure |-> totalStaked, iterations |-> iterations]

\* SEILeverageCalculator.createLiquidStakingLoop, for a whole seiAmount
createLiquidStakingLoop(seiAmount) ==
  StakingRounds(<<>>, Frac(seiAmount, 1), Frac(0, 1), 1)

\* the snapshots made of them by a cycle that gets the mock price
HealthSnapshots ==
  {Snapshot(getPositionHealth(data), MockPrice, 0) : data \in HealthPositions}

TargetLeverages == {Frac(18, 10), Frac(20, 10)}

\* collateral in steps of a tenth of a SEI, whole amounts among them
Collaterals == {Frac(c, CollateralSteps) : c \in 1..(MaxCollateral * CollateralSteps)}

\* target leverages with those at and below 1
AnyLeverages == {Frac(0, 10), Frac(5, 10), Frac(10, 10), Frac(20, 10)}

SafetyBuffers == {Frac(b, BufferSteps) : b \in 0..(BufferSteps - 1)}

Called(fn, arg) == [op |-> "call", id |-> 0, fn |-> fn, arg |-> arg]

Returned(fn, arg, result) ==
  [op |-> "return", id |-> 0, fn |-> fn, arg |-> arg, result |-> result]

Calls ==
  {Called("displayPositionStatus", snapshot) : snapshot \in HealthSnapshots}
    \cup {Called("checkAlertConditions", snapshot) : snapshot \in HealthSnapshots}
    \cup {Called("calculateLeverageParams",
                 [collateralSEI |-> c, targetLeverage |-> l, safetyBuffer |-> b]) :
            c \in Collaterals, l \in TargetLeverages, b \in SafetyBuffers}
    \cup {Called("SEILeverageCalculator.calculateLeverageParams",
                 [collateralSEI |-> c, targetLeverage |-> l, safetyBuffer |-> b]) :
            c \in (0 - 1)..MaxCollateral, l \in AnyLeverages,
            b \in {Frac(3, BufferSteps), Frac(4, BufferSteps)}}
    \cup {Called("monitorPosition", getPositionHealth(data)) : data \in MonitorPositions}
    \cup {Called("createLiquidStakingLoop", seiAmount) : seiAmount \in (0 - 1)..MaxAmount}

InitCalc ==
  /\ isMonitoring = FALSE
  /\ timers = 0
  /\ cycles = {}
  /\ emergencies = {}
  /\ snapshots = <<>>
  /\ alerts = <<>>
  /\ repays = <<>>
  /\ now = 0
  /\ started = 0
  /\ allSnapshots = <<>>
  /\ allAlerts = <<>>
  /\ triggered = 0
  /\ event \in Calls

DisplayPositionStatus ==
  /\ event.op = "call" /\ event.fn = "displayPositionStatus"
  /\ event' = Returned(event.fn, event.arg, displayPositionStatus(event.arg))
  /\ UNCHANGED <<isMonitoring, timers, cycles, emergencies, snapshots, alerts,
                 repays, now, started, allSnapshots, allAlerts, triggered>>

\* checkAlertConditions(snapshot) called on the monitor as constructed: it
\* adds the alerts and, for a critical snapshot, calls
\* triggerEmergencyProcedures, which runs up to its first await; event keeps
\* the alerts added.  No client of that monitor is initialized, so that
\* getPositionHealth rejects and the procedure ends in its catch
\* (EmergencyPositionFails)
CheckAlertConditions ==
  /\ event.op = "call" /\ event.fn = "checkAlertConditions"
  /\ LET new == AlertsFor(event.arg, snapshots, now)
     IN  /\ alerts' = AddAlerts(alerts, new)
         /\ allAlerts' = allAlerts \o new
         /\ event' = Returned(event.fn, event.arg, new)
  /\ IF IsCritical(event.arg)
       THEN /\ emergencies' = BeginEmergency(emergencies, 0)
            /\ triggered' = triggered + 1
       ELSE UNCHANGED <<emergencies, triggered>>
  /\ UNCHANGED <<isMonitoring, timers, cycles, snapshots, repays, now, started,
                 allSnapshots>>

CalculateLeverageParams ==
  /\ event.op = "call" /\ event.fn = "calculateLeverageParams"
  /\ event' = Returned(event.fn, event.arg,
                       calculateLeverageParams(event.arg.collateralSEI,
                                               event.arg.targetLeverage,
                                               event.arg.safetyBuffer))
  /\ UNCHANGED <<isMonitoring, timers, cycles, emergencies, snapshots, alerts,
                 repays, now, started, allSnapshots, allAlerts, triggered>>

SEICalculateLeverageParams ==
  /\ event.op = "call" /\ event.fn = "SEILeverageCalculator.calculateLeverageParams"
  /\ event' = Returned(event.fn, event.arg,
                       SEILeverageCalculator_calculateLeverageParams(
                         event.arg.collateralSEI, event.arg.targetLeverage,
                         event.arg.safetyBuffer))
  /\ UNCHANGED <<isMonitoring, timers, cycles, emergencies, snapshots, alerts,
                 repays, now, started, allSnapshots, allAlerts, triggered>>

MonitorPosition ==
  /\ event.op = "call" /\ event.fn = "monitorPosition"
  /\ event' = Returned(event.fn, event.arg, monitorPosition(event.arg))
  /\ UNCHANGED <<isMonitoring, timers, cycles, emergencies, snapshots, alerts,
                 repays, now, started, allSnapshots, allAlerts, triggered>>

CreateLiquidStakingLoop ==
  /\ event.op = "call" /\ event.fn = "createLiquidStakingLoop"
  /\ event' = Returned(event.fn, event.arg, createLiquidStakingLoop(event.arg))
  /\ UNCHANGED <<isMonitoring, timers, cycles, emergencies, snapshots, alerts,
                 repays, now, started, allSnapshots, allAlerts, triggered>>

NextCalc ==
  \/ DisplayPositionStatus
  \/ CheckAlertConditions
  \/ CalculateLeverageParams
  \/ SEICalculateLeverageParams
  \/ MonitorPosition
  \/ CreateLiquidStakingLoop
  \/ \E e \in emergencies : EmergencyPositionFails(e)

SpecCalc == InitCalc /\ [][NextCalc]_vars

-----------------------------------------------------------------------------
(* The execute-strategy1 command: main, one action per continuation.  The   *)
(* run is the record in event: where main stands (pc), whether              *)
(* SEI_WALLET_MNEMONIC is set, the amount of the command line, the balance  *)
(* once the bank module has reported it, and the transactions handed to     *)
(* SigningCosmWasmClient.execute so far, each with its amount in usei and   *)
(* whether it succeeded.  A call of the chain may fail, and execute() may   *)
(* fail before or after it has broadcast the transaction.                   *)

MaxSeiAmount == 3
MaxBalance == 9

\* Reserve 5 SEI for gas
StrategyGasReserve == 5

SeiAmounts == 1..MaxSeiAmount

WalletBalances == 0..MaxBalance

\* seiAmount * 0.563, a double
borrowAmount(seiAmount) == DblMul(DblWhole(seiAmount), DblOf(563, 1000))

\* the balance check with no reserve for gas
BalanceInsufficientNoReserve(currentBalance, seiAmount) ==
  currentBalance < seiAmount

\* parseFloat(currentBalance) < seiAmount + 5
BalanceInsufficient(currentBalance, seiAmount) ==
  currentBalance < seiAmount + StrategyGasReserve

Transaction(kind, amount, success) ==
  [kind |-> kind, amount |-> amount, success |-> success]

InitStrategy1 ==
  /\ isMonitoring = FALSE
  /\ timers = 0
  /\ cycles = {}
  /\ emergencies = {}
  /\ snapshots = <<>>
  /\ alerts = <<>>
  /\ repays = <<>>
  /\ now = 0
  /\ started = 0
  /\ allSnapshots = <<>>
  /\ allAlerts = <<>>
  /\ triggered = 0
  /\ event \in {[op |-> "strategy1", id |-> 0, pc |-> "main",
                 mnemonic |-> mnemonic, seiAmount |-> seiAmount,
                 balance |-> <<>>, submitted |-> <<>>, error |-> ""] :
                  mnemonic \in BOOLEAN, seiAmount \in SeiAmounts}

\* main stands at pc; the monitor is not part of the command
At(pc) ==
  /\ event.op = "strategy1" /\ event.pc = pc
  /\ UNCHANGED <<isMonitoring, timers, cycles, emergencies, snapshots, alerts,
                 repays, now, started, allSnapshots, allAlerts, triggered>>

\* the catch of main: log the error, process.exit(1)
Fail(error) == event' = [event EXCEPT !.pc = "exit1", !.error = error]

\* no mnemonic: executeMockStrategy, which only logs, and return
ExecuteMockStrategy ==
  /\ At("main") /\ ~event.mnemonic
  /\ event' = [event EXCEPT !.pc = "exit0"]

\* seiClient.connect(), then getSeiBalance is called
ConnectReplies ==
  /\ At("main") /\ event.mnemonic
  /\ event' = [event EXCEPT !.pc = "balance"]

ConnectFails ==
  /\ At("main") /\ event.mnemonic
  /\ Fail("Failed to connect to SEI network")

\* the balance arrives: process.exit(1) if it is insufficient, else
\* disconnect and yeiClient.initialize(mnemonic)
StrategyBalanceReplies(currentBalance) ==
  /\ At("balance")
  /\ IF BalanceInsufficient(currentBalance, event.seiAmount)
       THEN event' = [event EXCEPT !.balance = <<currentBalance>>,
                                   !.pc = "exit1",
                                   !.error = "Insufficient balance"]
       ELSE event' = [event EXCEPT !.balance = <<currentBalance>>,
                                   !.pc = "initialize"]

StrategyBalanceFails ==
  /\ At("balance")
  /\ Fail("Failed to get balances")

\* initialize() has returned: supplyCollateral(seiAmount) is called
InitializeReplies ==
  /\ At("initialize")
  /\ event' = [event EXCEPT !.pc = "supply"]

InitializeFails ==
  /\ At("initialize")
  /\ Fail("Failed to initialize Yei Finance client")

\* execute() has returned, called with Math.floor(amount * 1_000_000) usei:
\* the method returns success: true
Executed(kind, amount, next) ==
  event' = [event EXCEPT !.submitted =
                           Append(@, Transaction(kind, amountInUsei(amount), TRUE)),
                         !.pc = next]

\* getAccounts() or execute() has thrown, the transaction broadcast or not:
\* the method rethrows
ExecuteFails(kind, amount) ==
  \E broadcast \in BOOLEAN :
    event' = [event EXCEPT !.submitted =
                             IF broadcast
                               THEN Append(@, Transaction(kind, amountInUsei(amount),
                                                          FALSE))
                               ELSE @,
                           !.pc = "exit1",
                           !.error = "Failed to execute"]

SupplyCollateralReplies ==
  /\ At("supply")
  /\ Executed("supply", DblWhole(event.seiAmount), "borrow")

SupplyCollateralFails ==
  /\ At("supply")
  /\ ExecuteFails("supply", DblWhole(event.seiAmount))

BorrowSEIReplies ==
  /\ At("borrow")
  /\ Executed("borrow", borrowAmount(event.seiAmount), "stake")

BorrowSEIFails ==
  /\ At("borrow")
  /\ ExecuteFails("borrow", borrowAmount(event.seiAmount))

StakeBorrowedSEIReplies ==
  /\ At("stake")
  /\ Executed("stake", borrowAmount(event.seiAmount), "verify")

StakeBorrowedSEIFails ==
  /\ At("stake")
  /\ ExecuteFails("stake", borrowAmount(event.seiAmount))

\* after 3 seconds getPositionHealth replies: logs, disconnect, end of main
VerifyReplies ==
  /\ At("verify")
  /\ event' = [event EXCEPT !.pc = "exit0"]

VerifyFails ==
  /\ At("verify")
  /\ Fail("Failed to get position health")

NextStrategy1 ==
  \/ ExecuteMockStrategy
  \/ ConnectReplies
  \/ ConnectFails
  \/ \E currentBalance \in WalletBalances : StrategyBalanceReplies(currentBalance)
  \/ StrategyBalanceFails
  \/ InitializeReplies
  \/ InitializeFails
  \/ SupplyCollateralReplies
  \/ SupplyCollateralFails
  \/ BorrowSEIReplies
  \/ BorrowSEIFails
  \/ StakeBorrowedSEIReplies
  \/ StakeBorrowedSEIFails
  \/ VerifyReplies
  \/ VerifyFails

SpecStrategy1 == InitStrategy1 /\ [][NextStrategy1]_vars

----------------------------------------------------------------------------
(* Properties. *)

Last(s) == s[Len(s)]

\* the last k elements of s, in order
Newest(s, k) == [i \in 1..k |-> s[Len(s) - k + i]]

Min(a, b) == IF a < b THEN a ELSE b

\* s with x appended as its newest entry, holding at most cap entries
WithNewest(s, x, cap) == Newest(Append(s, x), Min(Len(s) + 1, cap))

InFlight(id) == \E c \in cycles : c.id = id

FailureAlert(t) ==
  [level |-> "CRITICAL", message |-> "Health check failed", timestamp |-> t,
   actionRequired |-> TRUE]

\* C1: no health-check cycle begins after stopMonitoring() has returned: a
\* timer callback begins a cycle only while monitoring is active.
C1_NoCycleAfterStop == [][event'.op = "tick" => isMonitoring]_vars

\* C2: cycles never overlap: at most one health-check cycle is in progress
\* at any time.
C2_CyclesNeverOverlap == Cardinality(cycles) <= 1

\* C3: every emergencyRepay the monitor submits was submitted with
\* auto-execution enabled and with a balance of at least repayAmount + 1; in
\* the code auto-execution is never enabled, so nothing is submitted.
C3_RepayOnlyWhenEnabledAndFunded ==
  \A i \in DOMAIN repays :
    /\ autoExecutionEnabled
    /\ repays[i].balance * repays[i].amount.d
         >= repays[i].amount.n + 1 * repays[i].amount.d

\* an emergency procedure found the balance sufficient and submitted nothing
C3_Witness == event.op = "emergencySufficient" /\ repays = <<>>

\* C4: the emergency procedure is triggered by a step exactly when that step
\* appends a snapshot with healthFactor < 1.2: never by a step that appends a
\* snapshot with healthFactor >= 1.2 or by one that appends none (a failed
\* cycle), and always by one that appends a snapshot with healthFactor < 1.2.
C4_EmergencyIffCritical ==
  [][LET appended == Len(allSnapshots') = Len(allSnapshots) + 1
         begun    == {e \in emergencies' : e.pc = "position"} \ emergencies
     IN  /\ (triggered' # triggered \/ begun # {}) =>
              /\ appended
              /\ Last(allSnapshots').healthFactor.n * 10
                   < 12 * Last(allSnapshots').healthFactor.d
              /\ triggered' = triggered + 1
              /\ \E c \in cycles \ cycles' :
                   begun = {[id |-> c.id, pc |-> "position", position |-> NoPosition]}
         /\ (appended /\ Last(allSnapshots').healthFactor.n * 10
                           < 12 * Last(allSnapshots').healthFactor.d)
              => triggered' = triggered + 1 /\ begun # {}
         /\ (~appended) => triggered' = triggered /\ begun = {}
    ]_vars

\* a cycle with healthFactor exactly 1.2 has completed without an emergency,
\* after one with healthFactor < 1.2 triggered one
C4_Witness ==
  /\ event.op = "snapshot"
  /\ Last(allSnapshots).collateral = 150 /\ Last(allSnapshots).debt = 100
  /\ triggered = 1
  /\ Len(allSnapshots) = 2

\* C5: a cycle whose position query fails appends exactly one alert, of level
\* CRITICAL with the message 'Health check failed', and leaves the snapshot
\* history as it was.
C5_FailedQueryAlertsOnce ==
  [][\A c \in cycles :
       (c.pc = "position" /\ ~InFlight(c.id)') =>
         /\ alerts' = WithNewest(alerts, FailureAlert(now), 50)
         /\ snapshots' = snapshots
    ]_vars

\* a position query has failed after a snapshot was recorded
C5_Witness ==
  /\ event.op = "checkFailed"
  /\ snapshots # <<>>
  /\ Last(alerts) = FailureAlert(now)

\* The sources answer: a query that was sent is eventually answered, by a
\* value or by a failure, and the continuation waiting for it then runs.
Answer(id) ==
  \E c \in cycles :
    /\ c.id = id
    /\ \/ PositionFails(c)
       \/ \E data \in Positions : PositionReplies(c, data)
       \/ \E price \in Prices : PriceReplies(c, price)
       \/ PriceFails(c)

FairSpec == Spec /\ \A id \in 1..MaxCycles : WF_vars(Answer(id))

\* C6: every cycle that begins eventually ends, and the step that ends it
\* appends one snapshot to the snapshot history or one failure alert to the
\* alert history.
C6_NeverSilent ==
  /\ \A id \in 1..MaxCycles : InFlight(id) ~> ~InFlight(id)
  /\ [][\A c \in cycles :
          (~InFlight(c.id)') =>
            \/ /\ snapshots' # <<>>
               /\ snapshots' = WithNewest(snapshots, Last(snapshots'), 100)
            \/ /\ snapshots' = snapshots
               /\ alerts' = WithNewest(alerts, FailureAlert(now), 50)
       ]_vars

\* one cycle has ended with a snapshot and another with a failure alert
C6_Witness ==
  /\ cycles = {}
  /\ started = 2
  /\ Len(snapshots) = 1
  /\ \E i \in DOMAIN alerts : alerts[i].message = "Health check failed"

\* C7: a failed position query leaves the monitor running as it was, with a
\* timer scheduled and its timers, its other cycles and its snapshot history
\* untouched; and a cycle that gets its answers appends the snapshot of
\* these answers, whatever failed before.
C7_FailureDoesNotStopLoop ==
  /\ [][\A c \in cycles :
          (c.pc = "position" /\ ~InFlight(c.id)') =>
            /\ isMonitoring' = isMonitoring
            /\ timers' = timers
            /\ cycles' = cycles \ {c}
            /\ snapshots' = snapshots
            /\ timers' > 0
       ]_vars
  /\ [][\A c \in cycles :
          (c.pc = "price" /\ ~InFlight(c.id)') =>
            \E price \in Prices \cup {45} :
              snapshots' = WithNewest(snapshots,
                [timestamp        |-> now,
                 collateral       |-> c.position.collateral,
                 debt             |-> c.position.debt,
                 healthFactor     |-> [n |-> c.position.collateral * 8,
                                       d |-> c.position.debt * 10],
                 ltv              |-> [n |-> c.position.debt,
                                       d |-> c.position.collateral],
                 seiPrice         |-> price,
                 liquidationPrice |-> [n |-> c.position.debt * 10,
                                       d |-> c.position.collateral * 8],
                 netPnL           |-> calculatePnL(c.position.collateral,
                                                   c.position.debt, price)],
                100)
       ]_vars

\* the first cycle failed and the cycle begun by the next timer callback
\* has appended its snapshot, with monitoring still active
C7_Witness ==
  /\ event = Ev("snapshot", 2)
  /\ isMonitoring /\ timers = 1
  /\ Len(snapshots) = 1
  /\ alerts # <<>> /\ alerts[1] = FailureAlert(now)
  /\ cycles = {}

\* C8: the snapshot history never holds more than 100 entries and is always
\* the last min(n, 100) of the n snapshots appended so far, in the order they
\* were appended.
C8_SnapshotHistoryBounded ==
  /\ Len(snapshots) <= 100
  /\ snapshots = Newest(allSnapshots, Min(Len(allSnapshots), 100))

\* snapshots were appended to a full history
C8_Witness ==
  /\ Len(allSnapshots) >= 102
  /\ Len(snapshots) = 100
  /\ snapshots[1] = allSnapshots[Len(allSnapshots) - 99]
  /\ snapshots[1] # allSnapshots[1]

\* C9: the alert history never holds more than 50 entries and is always the
\* last min(n, 50) of the n alerts emitted so far, in the order they were
\* emitted.
C9_AlertHistoryBounded ==
  /\ Len(alerts) <= 50
  /\ alerts = Newest(allAlerts, Min(Len(allAlerts), 50))

\* alerts were appended to a full history, by a failed query and by a cycle
\* that emits several alerts
C9_Witness ==
  /\ Len(allAlerts) >= 53
  /\ Len(alerts) = 50
  /\ alerts[1] = allAlerts[Len(allAlerts) - 49]
  /\ alerts[50].message = "High LTV"
  /\ alerts[47].message = "Health check failed"

\* C10: startMonitoring() called while monitoring is active begins no cycle,
\* registers no timer and leaves the running flag, the snapshot history and
\* the alert history unchanged.
C10_StartWhileActiveIsNoOp ==
  [][(isMonitoring /\ event'.op = "start") =>
       /\ event'.id = 0
       /\ UNCHANGED <<isMonitoring, timers, cycles, emergencies, started,
                      snapshots, alerts, repays, triggered>>
    ]_vars

\* startMonitoring() was called a second time while the first cycle was
\* suspended
C10_Witness ==
  /\ event = Ev("start", 0)
  /\ isMonitoring
  /\ timers = 1 /\ started = 1 /\ Cardinality(cycles) = 1

\* the status of the threshold table, with closed lower bounds
StatusTable(hf) ==
  IF FracLess(hf, 12, 10) THEN "CRITICAL"
  ELSE IF FracLess(hf, 15, 10) THEN "WARNING"
  ELSE IF FracLess(hf, 20, 10) THEN "STABLE"
  ELSE "HEALTHY"

IsHealthAlert(alert) ==
  alert.message \in {"URGENT: Health factor", "Low health factor"}

\* C11: the status of a snapshot follows the threshold table with closed
\* lower bounds (CRITICAL below 1.2, WARNING from 1.2, STABLE from 1.5,
\* HEALTHY from 2.0), both as displayPositionStatus prints it and as
\* checkAlertConditions picks the level of the health-factor alert (one
\* alert of level CRITICAL or WARNING, none for STABLE and HEALTHY).
C11_StatusFollowsTable ==
  (event.op = "return" /\ event.fn \in {"displayPositionStatus", "checkAlertConditions"}) =>
    LET status == StatusTable(event.arg.healthFactor)
    IN  /\ (event.fn = "displayPositionStatus") => event.result = status
        /\ (event.fn = "checkAlertConditions") =>
             LET health == SelectSeq(event.result, IsHealthAlert)
             IN  IF status \in {"CRITICAL", "WARNING"}
                   THEN Len(health) = 1 /\ health[1].level = status
                   ELSE health = <<>>

IsCriticalHealthAlert(alert) ==
  alert.level = "CRITICAL" /\ alert.message = "URGENT: Health factor"

Timestamps(s) == [i \in DOMAIN s |-> s[i].timestamp]

\* C12: alerts are not deduplicated or latched across cycles: the CRITICAL
\* health-factor alerts emitted so far are, one for one and in order, those
\* of the snapshots with healthFactor < 1.2 appended so far, so k consecutive
\* cycles with healthFactor < 1.2 leave k such alerts.
C12_AlertsNotDeduplicated ==
  Timestamps(SelectSeq(allAlerts, IsCriticalHealthAlert))
    = Timestamps(SelectSeq(allSnapshots, IsCritical))

\* three consecutive cycles with healthFactor < 1.2 have left three CRITICAL
\* health-factor alerts in the alert history, one of each cycle
C12_Witness ==
  /\ Len(allSnapshots) = 3
  /\ \A i \in 1..3 : IsCritical(allSnapshots[i])
  /\ Timestamps(SelectSeq(alerts, IsCriticalHealthAlert)) = <<0, 1, 2>>

\* C13: an alert asks for action exactly when it is a CRITICAL health-factor
\* alert, a high-LTV alert or the alert of a failed health check; the
\* low-health-factor WARNING and the price-movement WARNING do not.
C13_ActionRequiredByKind ==
  \A i \in DOMAIN allAlerts :
    LET alert == allAlerts[i]
    IN  /\ alert.message \in {"URGENT: Health factor", "Low health factor",
                              "SEI price moved", "High LTV", "Health check failed"}
        /\ alert.actionRequired =
             \/ alert.level = "CRITICAL" /\ alert.message = "URGENT: Health factor"
             \/ alert.level = "WARNING" /\ alert.message = "High LTV"
             \/ alert.level = "CRITICAL" /\ alert.message = "Health check failed"
        /\ (alert.message \in {"Low health factor", "SEI price moved"}) =>
             alert.level = "WARNING" /\ ~alert.actionRequired

\* the alert history holds an alert of each of the five kinds
C13_Witness ==
  \A message \in {"URGENT: Health factor", "Low health factor",
                  "SEI price moved", "High LTV", "Health check failed"} :
    \E i \in DOMAIN alerts : alerts[i].message = message

\* C14: the snapshots of the history are strictly time-ordered: of any two
\* adjacent snapshots the later one has the strictly greater timestamp.
C14_SnapshotsStrictlyTimeOrdered ==
  \A i \in 1..(Len(snapshots) - 1) :
    snapshots[i].timestamp < snapshots[i + 1].timestamp

\* C15: a cycle whose position reply reports zero collateral is aborted and
\* records no snapshot: no snapshot with collateral 0 is ever appended.
C15_ZeroCollateralRecordsNoSnapshot ==
  \A i \in DOMAIN allSnapshots : allSnapshots[i].collateral # 0

\* C16: a cycle whose price query fails is not aborted, and the snapshot it
\* appends carries the last known price, the price of the newest snapshot
\* the history held before.
C16_PriceFailureKeepsLastPrice ==
  [][\A c \in cycles :
       (c.pc = "price" /\ event' = Ev("snapshotMockPrice", c.id) /\ snapshots # <<>>) =>
         /\ Len(allSnapshots') = Len(allSnapshots) + 1
         /\ Last(snapshots').seiPrice = Last(snapshots).seiPrice
    ]_vars

\* C17: every snapshot of the history has 0 <= ltv <= 1, healthFactor >= 0
\* and liquidationPrice >= 0 (none of them NaN).
C17_SnapshotMetricsInRange ==
  \A i \in DOMAIN snapshots :
    LET s == snapshots[i]
    IN  /\ s.ltv.d > 0 /\ 0 <= s.ltv.n /\ s.ltv.n <= s.ltv.d
        /\ (s.healthFactor.d > 0 \/ s.healthFactor.n > 0) /\ s.healthFactor.n >= 0
        /\ (s.liquidationPrice.d > 0 \/ s.liquidationPrice.n > 0)
        /\ s.liquidationPrice.n >= 0

\* C18: getDashboard() returns as current snapshot the snapshot appended
\* last (none while nothing was appended) and as recentAlerts the last
\* min(10, n) of the n alerts of the alert history, in order, never more
\* than 10.
C18_DashboardShowsNewest ==
  (event.op = "getDashboard") =>
    /\ event.result.currentPosition =
         (IF allSnapshots = <<>> THEN <<>> ELSE <<Last(allSnapshots)>>)
    /\ event.result.recentAlerts = Newest(alerts, Min(10, Len(alerts)))
    /\ Len(event.result.recentAlerts) <= 10

\* getDashboard() was called with a full alert history and with a trimmed
\* snapshot history
C18_Witness ==
  /\ event.op = "getDashboard"
  /\ Len(alerts) = 50 /\ Len(allSnapshots) > 100
  /\ Len(event.result.recentAlerts) = 10
  /\ event.result.recentAlerts[1] = alerts[41]
  /\ event.result.currentPosition = <<allSnapshots[Len(allSnapshots)]>>

\* healthFactor a minus healthFactor b against 0.1 and -0.1
TrendOf(a, b) ==
  IF (a.n * b.d - b.n * a.d) * 10 > a.d * b.d THEN "IMPROVING"
  ELSE IF (a.n * b.d - b.n * a.d) * 10 < 0 - a.d * b.d THEN "DECLINING"
  ELSE "STABLE"

\* C19: the healthTrend of getDashboard() is STABLE while fewer than three
\* snapshots were appended; after that it is decided by the health factor of
\* the snapshot appended last minus that of the one appended two before it:
\* IMPROVING above 0.1, DECLINING below -0.1, STABLE otherwise (at exactly
\* 0.1 and -0.1 too), whatever the snapshot between them holds.
C19_TrendOfNewestAndThirdNewest ==
  (event.op = "getDashboard") =>
    LET n == Len(allSnapshots)
    IN  event.result.performance.healthTrend =
          (IF n < 3 THEN "STABLE"
           ELSE TrendOf(allSnapshots[n].healthFactor,
                        allSnapshots[n - 2].healthFactor))

\* C20: for collateral > 0, targetLeverage > 1 and 0 <= safetyBuffer < 1,
\* calculateLeverageParams returns safeBorrowAmount <= maxBorrowAmount and
\* resultingLTV strictly below the protocol LTV 0.75.
C20_ResultingLTVBelowProtocolLTV ==
  (event.op = "return" /\ event.fn = "calculateLeverageParams") =>
    /\ DblCmp(event.result.safeBorrowAmount, event.result.maxBorrowAmount) <= 0
    /\ DblCmp(event.result.resultingLTV, DblOf(75, 100)) < 0

\* C21: calculateLeverageParams fails with InvalidInput and returns no
\* parameters whenever collateral <= 0 or targetLeverage <= 1: no call with
\* such arguments returns.
C21_InvalidInputReturnsNothing ==
  ~ /\ event.op = "return"
    /\ event.fn = "SEILeverageCalculator.calculateLeverageParams"
    /\ \/ event.arg.collateralSEI <= 0
       \/ event.arg.targetLeverage.n <= event.arg.targetLeverage.d

\* C22: the liquidation risk score is (1.5 - healthFactor) / 0.5 clamped to
\* [0, 1]: at least 0, at most 1, 0 for healthFactor >= 1.5 and 1 for
\* healthFactor <= 1.0.
C22_RiskScoreClamped ==
  (event.op = "return" /\ event.fn = "monitorPosition") =>
    LET hf   == event.arg.healthFactor
        risk == event.result.liquidationRisk
    IN  /\ risk.d > 0 /\ 0 <= risk.n /\ risk.n <= risk.d
        /\ (~FracLess(hf, 15, 10)) => risk.n = 0
        /\ (~FracGreater(hf, 10, 10)) => risk.n = risk.d
        /\ (FracLess(hf, 15, 10) /\ FracGreater(hf, 10, 10)) =>
             risk.n * 5 * hf.d = (15 * hf.d - 10 * hf.n) * risk.d

\* C30: createLiquidStakingLoop returns after at most 5 rounds, none for an
\* amount of 1 or less; the rounds are numbered 1..k, each borrows 70% of
\* its stake, the first stakes the amount and every next one the borrow of
\* the one before, every stake is above 1, the loop goes on while rounds are
\* left and the next stake is above 1, and totalExposure is the sum of the
\* stakes.
C30_StakingLoopBounded ==
  (event.op = "return" /\ event.fn = "createLiquidStakingLoop") =>
    LET it == event.result.iterations
        k  == Len(it)
        SumStakes[i \in 0..k] ==
          IF i = 0 THEN Frac(0, 1) ELSE FracAdd(SumStakes[i - 1], it[i].stake)
    IN  /\ k <= 5
        /\ (event.arg <= 1) => k = 0
        /\ (event.arg > 1) => k >= 1 /\ it[1].stake = Frac(event.arg, 1)
        /\ \A i \in 1..k :
             /\ it[i].round = i
             /\ it[i].borrow = Frac(7 * it[i].stake.n, 10 * it[i].stake.d)
             /\ it[i].stake.n > it[i].stake.d
             /\ (i < k) => it[i + 1].stake = it[i].borrow
        /\ (k >= 1 /\ k < 5) => it[k].borrow.n <= it[k].borrow.d
        /\ event.result.totalExposure = SumStakes[k]

\* the loop has returned after 5 rounds with more than 1 SEI left to stake
C30_Witness ==
  /\ event.op = "return" /\ event.fn = "createLiquidStakingLoop"
  /\ event.arg = 10
  /\ Len(event.result.iterations) = 5
  /\ event.result.iterations[5].borrow = Frac(168070, 100000)
  /\ event.result.totalExposure = Frac(277310, 10000)

\* C23: the emergency procedure of a cycle finishes before that cycle is
\* complete: an emergency procedure is in progress only while the cycle that
\* triggered it is, and so never together with a later cycle.
C23_EmergencyWithinItsCycle ==
  /\ \A e \in emergencies : InFlight(e.id)
  /\ \A e \in emergencies : \A c \in cycles : c.id <= e.id

\* C24: the emergency procedure works on the snapshot that triggered it,
\* whatever the source returns afterwards: its repay amount is 25% of the
\* snapshot's debt and its projected health factor is (snapshot collateral
\* x 0.8) / (snapshot debt - repay amount); for debt 100 and collateral 150
\* these are 25 and 1.6.
C24_RepayFromTriggeringSnapshot ==
  /\ \A e \in emergencies :
       (e.pc = "balance") =>
         LET snapshot == Last(allSnapshots)
         IN  /\ repayAmount(e.position).n * 100
                  = snapshot.debt * 25 * repayAmount(e.position).d
             /\ projectedHealthFactor(e.position).n * 75 * snapshot.debt
                  = snapshot.collateral * 80 * projectedHealthFactor(e.position).d
  /\ repayAmount([collateral |-> 150, debt |-> 100]).n
       = 25 * repayAmount([collateral |-> 150, debt |-> 100]).d
  /\ projectedHealthFactor([collateral |-> 150, debt |-> 100]).n * 10
       = 16 * projectedHealthFactor([collateral |-> 150, debt |-> 100]).d

\* C25: an emergency procedure that ends without a repay, its funding
\* insufficient or auto-execution not enabled, appends one alert of level
\* INFO to the alert history.
C25_UnexecutedEmergencyAlertsInfo ==
  [][(event'.op \in {"emergencySufficient", "emergencyInsufficient"}
        /\ repays' = repays) =>
       /\ Len(allAlerts') = Len(allAlerts) + 1
       /\ Last(allAlerts').level = "INFO"
       /\ alerts' = WithNewest(alerts, Last(allAlerts'), 50)
    ]_vars

\* the alerts a step has appended
Emitted(before, after) == SubSeq(after, Len(before) + 1, Len(after))

IsPriceAlert(alert) == alert.message = "SEI price moved"

\* C26: a cycle that appends a snapshot appends a price-movement alert, one
\* and of level WARNING, exactly when the history held a snapshot before and
\* the price differs from the price of the newest of them by more than 10%
\* of that price: none for the first snapshot, none for exactly 10%; and a
\* step that appends no snapshot appends no such alert.
C26_PriceAlertIffMoved ==
  [][LET new   == Emitted(allAlerts, allAlerts')
         price == SelectSeq(new, IsPriceAlert)
     IN  IF Len(allSnapshots') = Len(allSnapshots) + 1
           THEN LET cur   == Last(allSnapshots').seiPrice
                    moved == /\ snapshots # <<>>
                             /\ \/ (cur - Last(snapshots).seiPrice) * 10
                                     > Last(snapshots).seiPrice
                                \/ (Last(snapshots).seiPrice - cur) * 10
                                     > Last(snapshots).seiPrice
                IN  /\ Len(price) = (IF moved THEN 1 ELSE 0)
                    /\ \A i \in DOMAIN price :
                         price[i].level = "WARNING" /\ ~price[i].actionRequired
           ELSE price = <<>>
    ]_vars

\* C27: at most one recurring monitoring timer exists at any time, for every
\* sequence of startMonitoring and stopMonitoring calls.
C27_AtMostOneTimer == timers <= 1

IsLTVAlert(alert) == alert.message = "High LTV"

\* C28: a cycle that appends a snapshot with collateral > 0 and a high-LTV
\* alert appends a CRITICAL health-factor alert and triggers the emergency
\* procedure in the same step; and for every position with collateral > 0
\* and healthFactor h/100, ltv > 0.70 implies healthFactor < 1.2.
C28_HighLTVImpliesCritical ==
  /\ [][LET new == Emitted(allAlerts, allAlerts')
        IN  (/\ Len(allSnapshots') = Len(allSnapshots) + 1
             /\ Last(allSnapshots').collateral > 0
             /\ SelectSeq(new, IsLTVAlert) # <<>>) =>
              /\ Len(SelectSeq(new, IsCriticalHealthAlert)) = 1
              /\ triggered' = triggered + 1
              /\ \E e \in emergencies' \ emergencies : e.pc = "position"
       ]_vars
  /\ \A data \in HealthPositions :
       (data.collateral > 0 /\ IsHighLTV(getPositionHealth(data)))
         => IsCritical(getPositionHealth(data))

\* a cycle with collateral 100 and debt 150 has appended the high-LTV alert
\* and the CRITICAL alert and triggered the emergency procedure
C28_Witness ==
  /\ event.op = "snapshot"
  /\ Last(allSnapshots).collateral = 100 /\ Last(allSnapshots).debt = 150
  /\ Len(allAlerts) = 2
  /\ IsCriticalHealthAlert(allAlerts[1]) /\ IsLTVAlert(allAlerts[2])
  /\ triggered = 1
  /\ \E e \in emergencies : e.pc = "position"

StrategyOrder == <<"supply", "borrow", "stake">>

\* C29: the execute-strategy1 command submits its transactions only in the
\* order supply, borrow, stake, each one only after the one before it has
\* succeeded; it submits none without a mnemonic, none before the balance is
\* known and none when the balance is below seiAmount + 5; and after a
\* failure the run has ended with exit code 1 and takes no further step.
C29_TransactionsInOrder ==
  /\ [](LET submitted == event.submitted
        IN  /\ Len(submitted) <= 3
            /\ \A i \in DOMAIN submitted : submitted[i].kind = StrategyOrder[i]
            /\ \A i \in DOMAIN submitted :
                 i < Len(submitted) => submitted[i].success
            /\ ~event.mnemonic => submitted = <<>>
            /\ event.balance = <<>> => submitted = <<>>
            /\ (event.balance # <<>>
                  /\ event.balance[1] < event.seiAmount + 5) =>
                 /\ submitted = <<>>
                 /\ event.pc = "exit1"
            /\ (\E i \in DOMAIN submitted : ~submitted[i].success) =>
                 event.pc = "exit1")
  /\ [][event.pc \in {"exit0", "exit1"} => event' = event]_vars

\* a run with balance seiAmount + 5 exactly has submitted all three
\* transactions and ended normally
C29_Witness ==
  /\ event.pc = "exit0"
  /\ event.mnemonic
  /\ event.balance = <<event.seiAmount + 5>>
  /\ Len(event.submitted) = 3
  /\ \A i \in 1..3 :
       event.submitted[i].kind = StrategyOrder[i] /\ event.submitted[i].success
====
